---- MODULE Spec2Model ----
(***************************************************************************)
(* A model of packages/constraint-solver/resolver.js: the Resolver         *)
(* registry (addUnitVersion, getConstraint), the UnitVersion and           *)
(* Constraint entities, exact-constraint propagation, neighbour expansion  *)
(* and the best-first search of resolve.                                   *)
(*                                                                         *)
(* Strings are sequences of one-character strings, so that the string      *)
(* conversions of the code (toString, JSON.stringify, replace) are         *)
(* computed and not assumed injective.  Versions are natural numbers and   *)
(* the order of the semver library is the order of the numbers.            *)
(* Objects are numbered by allocation: a UnitVersion object is its index   *)
(* in uvObjects, a Constraint object its index in cObjects, and reference  *)
(* equality is equality of indices.                                        *)
(***************************************************************************)
EXTENDS Integers, Sequences, FiniteSets, TLC

VARIABLES
    uvObjects,          \* heap of UnitVersion objects, by allocation order
    cObjects,           \* heap of Constraint objects, by allocation order
    unitsVersions,      \* self.unitsVersions: name -> sequence of UnitVersion refs
    unitsVersionsMap,   \* self._unitsVersionsMap: "name@version" -> UnitVersion ref
    latestVersion,      \* self._latestVersion: name -> version
    constraintsTable,   \* self._constraints: idString -> Constraint ref
    addCalls,           \* history: the references passed to addUnitVersion, in order
    getCalls,           \* history: [name, versionConstraint, ref] of every getConstraint
    pc,                 \* position of the resolve call: idle, loop, exit, done
    args,               \* the arguments resolve was called with
    startState,         \* resolve's startState
    pq,                 \* resolve's priority queue: entries [state, key], in push order
    currentState,       \* resolve's currentState: the state popped last
    someError,          \* resolve's someError
    solution,           \* resolve's solution
    outcome,            \* what resolve returned or threw
    callerArrays,       \* the arrays the caller passed to resolve, as they are now
    failures,           \* history: the failureMsg of every failed expansion, in order
    propagateArgs,      \* the arguments of a call of _propagateExactTransDeps
    propagateResults    \* what that call gave, and the call on its result after it

registryVars == <<uvObjects, cObjects, unitsVersions, unitsVersionsMap,
                  latestVersion, constraintsTable, addCalls, getCalls>>
resolveVars == <<pc, args, startState, pq, currentState, someError, solution,
                 outcome, callerArrays, failures>>
propagateVars == <<propagateArgs, propagateResults>>
vars == <<uvObjects, cObjects, unitsVersions, unitsVersionsMap, latestVersion,
          constraintsTable, addCalls, getCalls, pc, args, startState, pq, currentState,
          someError, solution, outcome, callerArrays, failures, propagateArgs,
          propagateResults>>

(***************************************************************************)
(* Bounds of the model.                                                    *)
(***************************************************************************)
\* versions range over 1..MaxVersion
MaxVersion == 2
\* at most MaxUnits UnitVersion objects are allocated
MaxUnits == 3
\* the registry calls of SpecRegistry: at most MaxCalls of them
MaxCalls == 6

Versions == 1 .. MaxVersion

(***************************************************************************)
(* Values.                                                                 *)
(***************************************************************************)
\* JavaScript's undefined / null
Undefined == -1
\* the reference of resolve's appUV, which is in no registry
TargetRef == 0
\* JavaScript's Infinity; every finite cost of the model is below it
Infinity == 1000

PkgA == <<"a">>
PkgB == <<"b">>
PkgC == <<"c">>
TargetName == <<"t", "a", "r", "g", "e", "t">>

Digits == <<"1", "2", "3", "4", "5", "6", "7", "8", "9">>
\* the printed form of a version
VersionString(v) == IF v = 0 THEN <<"0">> ELSE <<Digits[v]>>
\* the version a printed form denotes, Undefined when it denotes none
ParseVersion(s) ==
    IF Len(s) = 1 /\ \E v \in 1 .. Len(Digits) : Digits[v] = s[1]
    THEN CHOOSE v \in 1 .. Len(Digits) : Digits[v] = s[1]
    ELSE Undefined

Range(s) == {s[i] : i \in 1 .. Len(s)}
\* _.uniq: the first occurrence of every element, in order
RECURSIVE Uniq(_)
Uniq(s) ==
    IF s = <<>> THEN <<>>
    ELSE LET Keep(front, last) ==
                 IF last \in Range(front) THEN front ELSE Append(front, last)
         IN Keep(Uniq(SubSeq(s, 1, Len(s) - 1)), s[Len(s)])
\* _.union(a, b)
ArrayUnion(a, b) == Uniq(a \o b)
\* _.has(obj, key)
Has(obj, key) == key \in DOMAIN obj
\* obj[key] = value
Put(obj, key, value) == (key :> value) @@ obj
\* obj[key]
Get(obj, key) == IF key \in DOMAIN obj THEN obj[key] ELSE Undefined
\* an object without properties
EmptyObject == [k \in {} |-> Undefined]
\* the position of the first x in s, 0 when there is none
IndexOf(s, x) ==
    IF \E i \in 1 .. Len(s) : s[i] = x
    THEN CHOOSE i \in 1 .. Len(s) : s[i] = x /\ \A j \in 1 .. (i - 1) : s[j] # x
    ELSE 0
\* String.prototype.replace(x, "") with a string pattern: the first match goes
ReplaceFirst(s, x) ==
    LET i == IndexOf(s, x)
    IN IF i = 0 THEN s ELSE SubSeq(s, 1, i - 1) \o SubSeq(s, i + 1, Len(s))

(***************************************************************************)
(* Errors.  A message is a pair of its fixed text and its argument.        *)
(***************************************************************************)
\* no message: null
Null == <<>>
NoUnitVersionText == "No unit version was found for the constraint -- "
CannotChooseText == "Cannot choose satisfying versions of package -- "
NoneSensibleText == "None of the versions unit produces a sensible result -- "
CouldntResolve == <<"Couldn't resolve, I am sorry", <<>>>>
\* the RangeError of a recursion that never ends
StackOverflow == <<"RangeError: Maximum call stack size exceeded", <<>>>>

(***************************************************************************)
(* The semver library: a total order on versions.                          *)
(***************************************************************************)
SemverLt(v, w) == v < w
SemverLte(v, w) == v <= w

(***************************************************************************)
(* Constraint.                                                             *)
(***************************************************************************)
\* PackageVersion.parseVersionConstraint: "=v" is exact, "v" is at-least
ParseVersionConstraint(versionString) ==
    IF versionString # <<>> /\ Head(versionString) = "="
    THEN [exact |-> TRUE, version |-> ParseVersion(Tail(versionString))]
    ELSE [exact |-> FALSE, version |-> ParseVersion(versionString)]
\* PackageVersion.parseConstraint: "name@=v" or "name@v"
ParseConstraint(s) ==
    LET i == IndexOf(s, "@")
        parsed == ParseVersionConstraint(SubSeq(s, i + 1, Len(s)))
    IN [name |-> SubSeq(s, 1, i - 1), exact |-> parsed.exact,
        version |-> parsed.version]
\* new ConstraintSolver.Constraint(name, versionString)
Constraint(name, versionString) ==
    IF versionString # <<>>
    THEN LET parsed == ParseVersionConstraint(versionString)
         IN [name |-> name, exact |-> parsed.exact, version |-> parsed.version]
    ELSE ParseConstraint(name)
\* Constraint.prototype.toString
ConstraintToString(c) ==
    c.name \o <<"@">> \o (IF c.exact THEN <<"=">> ELSE <<>>) \o VersionString(c.version)
\* Constraint.prototype.isSatisfied
IsSatisfied(c, uv) ==
    IF c.exact
    THEN c.version = uv.version
    ELSE SemverLte(c.version, uv.version) /\ SemverLte(uv.ecv, c.version)

(***************************************************************************)
(* UnitVersion.                                                            *)
(***************************************************************************)
\* new ConstraintSolver.UnitVersion(name, unitVersion, ecv)
UnitVersion(name, unitVersion, ecv) ==
    [name |-> name, version |-> unitVersion, ecv |-> ecv,
     dependencies |-> <<>>, constraints |-> <<>>]
\* UnitVersion.prototype.toString
UnitVersionToString(uv) == uv.name \o <<"@">> \o VersionString(uv.version)

(***************************************************************************)
(* DependenciesList: a sequence of names without repetition.               *)
(* ConstraintsList: a sequence of Constraint references without            *)
(* repetition.  Both are values: every operation returns a new list.       *)
(***************************************************************************)
ListContains(list, x) == x \in Range(list)
ListPush(list, x) == IF x \in Range(list) THEN list ELSE Append(list, x)
ListRemove(list, x) == SelectSeq(list, LAMBDA y : y # x)
ListUnion(list, other) == Uniq(list \o other)
ListFromArray(array) == Uniq(array)
ListIsEmpty(list) == list = <<>>
ListPeek(list) == Head(list)
\* ConstraintsList.prototype.violated
Violated(constraints, uv) ==
    \E i \in 1 .. Len(constraints) :
        /\ cObjects[constraints[i]].name = uv.name
        /\ ~IsSatisfied(cObjects[constraints[i]], uv)
\* DependenciesList.prototype.exactConstraintsIntersection
ExactConstraintsIntersection(dependencies, constraints) ==
    SelectSeq(constraints,
              LAMBDA c : cObjects[c].exact /\ ListContains(dependencies, cObjects[c].name))
\* ConstraintsList.prototype.exactDependenciesIntersection
ExactDependenciesIntersection(constraints, dependencies) ==
    SelectSeq(constraints,
              LAMBDA c : cObjects[c].exact /\ ListContains(dependencies, cObjects[c].name))

\* Constraint.prototype.getSatisfyingUnitVersion; h maps a reference to its object
GetSatisfyingUnitVersion(h, c) ==
    IF c.exact
    THEN Get(unitsVersionsMap, ReplaceFirst(ConstraintToString(c), "="))
    ELSE LET units == IF Has(unitsVersions, c.name) THEN unitsVersions[c.name] ELSE <<>>
             found == SelectSeq(units, LAMBDA r : IsSatisfied(c, h[r]))
         IN IF found = <<>> THEN Undefined ELSE Head(found)

(***************************************************************************)
(* Transitive exact constraints of a unit version.  A result is a record   *)
(* [error, value]: error is Null when the call returns value, and the      *)
(* message thrown otherwise.                                               *)
(***************************************************************************)
Returned(value) == [error |-> Null, value |-> value]
Thrown(msg) == [error |-> msg, value |-> <<>>]
NoUnitVersionError(c) == <<NoUnitVersionText, ConstraintToString(c)>>

RECURSIVE ExactTransitiveConstraintsOn(_, _, _)
RECURSIVE EachExactTransitive(_, _, _, _, _)
\* the each loop of _exactTransitiveConstraints over list, from position i;
\* acc is the variable exactTransitiveConstraints, path the calls in progress
EachExactTransitive(h, list, i, acc, path) ==
    IF i > Len(list) THEN Returned(acc)
    ELSE LET Rest(inner) ==
                 IF inner.error # Null THEN inner
                 ELSE EachExactTransitive(h, list, i + 1,
                                          ListUnion(acc, inner.value), path)
             Visit(unitVersion) ==
                 IF unitVersion = Undefined
                 THEN Thrown(NoUnitVersionError(cObjects[list[i]]))
                 ELSE Rest(ExactTransitiveConstraintsOn(h, unitVersion, path))
         IN Visit(GetSatisfyingUnitVersion(h, cObjects[list[i]]))
\* a call of _exactTransitiveConstraints on u made while the calls on path are
\* in progress: a call on a unit version of path repeats itself without end
ExactTransitiveConstraintsOn(h, u, path) ==
    IF u \in path THEN Thrown(StackOverflow)
    ELSE LET Each(exactTransitiveConstraints) ==
                 EachExactTransitive(h, exactTransitiveConstraints, 1,
                                     exactTransitiveConstraints, path \cup {u})
         IN Each(ExactConstraintsIntersection(h[u].dependencies, h[u].constraints))
\* UnitVersion.prototype._exactTransitiveConstraints
ExactTransitiveConstraints(h, u) == ExactTransitiveConstraintsOn(h, u, {})

\* the unit versions satisfying the constraints of list, in order; the first
\* constraint without one throws
RECURSIVE SatisfyingUnitVersions(_, _, _, _)
SatisfyingUnitVersions(h, list, i, uvs) ==
    IF i > Len(list) THEN Returned(uvs)
    ELSE LET Collect(unitVersion) ==
                 IF unitVersion = Undefined
                 THEN Thrown(NoUnitVersionError(cObjects[list[i]]))
                 ELSE SatisfyingUnitVersions(h, list, i + 1, Append(uvs, unitVersion))
         IN Collect(GetSatisfyingUnitVersion(h, cObjects[list[i]]))
\* UnitVersion.prototype.exactTransitiveDependenciesVersions
ExactTransitiveDependenciesVersions(h, u) ==
    LET Satisfying(etc) ==
            IF etc.error # Null THEN etc
            ELSE SatisfyingUnitVersions(h, etc.value, 1, <<>>)
    IN Satisfying(ExactTransitiveConstraints(h, u))

\* the union of the dependencies of the unit versions uvs into deps
RECURSIVE UnionDependencies(_, _, _, _)
UnionDependencies(h, uvs, i, deps) ==
    IF i > Len(uvs) THEN deps
    ELSE UnionDependencies(h, uvs, i + 1, ListUnion(deps, h[uvs[i]].dependencies))
\* deps without the names of the constraints of list
RECURSIVE RemoveConstraintNames(_, _, _)
RemoveConstraintNames(list, i, deps) ==
    IF i > Len(list) THEN deps
    ELSE RemoveConstraintNames(list, i + 1, ListRemove(deps, cObjects[list[i]].name))
\* UnitVersion.prototype.inexactTransitiveDependencies
InexactTransitiveDependencies(h, u) ==
    LET Inexact(etc, sat) ==
            IF sat.error # Null THEN sat
            ELSE Returned(RemoveConstraintNames(etc.value, 1,
                     UnionDependencies(h, sat.value, 1, h[u].dependencies)))
        Exact(etc) ==
            IF etc.error # Null THEN etc
            ELSE Inexact(etc, SatisfyingUnitVersions(h, etc.value, 1, <<>>))
    IN Exact(ExactTransitiveConstraints(h, u))

(***************************************************************************)
(* Propagation of exact transitive dependencies.                           *)
(***************************************************************************)
\* the union of the constraints of the unit versions uvs into list
RECURSIVE UnionConstraints(_, _, _, _)
UnionConstraints(h, uvs, i, list) ==
    IF i > Len(uvs) THEN list
    ELSE UnionConstraints(h, uvs, i + 1, ListUnion(list, h[uvs[i]].constraints))
\* a removal that removes nothing
KeepDependencies(h, choices, i, dependencies) == dependencies
\* dependencies without the names of the unit versions of choices
RECURSIVE RemoveChoiceNames(_, _, _, _)
RemoveChoiceNames(h, choices, i, dependencies) ==
    IF i > Len(choices) THEN dependencies
    ELSE RemoveChoiceNames(h, choices, i + 1,
                           ListRemove(dependencies, h[choices[i]].name))
\* the enqueueing of the exact dependencies: [queue, isEnqueued]
RECURSIVE EnqueueExactDeps(_, _, _, _, _)
EnqueueExactDeps(h, exactDeps, i, queue, isEnqueued) ==
    IF i > Len(exactDeps) THEN [queue |-> queue, isEnqueued |-> isEnqueued]
    ELSE IF h[exactDeps[i]].name \in isEnqueued
         THEN EnqueueExactDeps(h, exactDeps, i + 1, queue, isEnqueued)
         ELSE EnqueueExactDeps(h, exactDeps, i + 1, Append(queue, exactDeps[i]),
                               isEnqueued \cup {h[exactDeps[i]].name})

\* a push on the array itself: the argument holds x too
PushInPlace(array, x) == [argument |-> Append(array, x), array |-> Append(array, x)]
\* choices = _.clone(choices); choices.push(x): the array pushed on is a copy,
\* and the array passed as argument stays as it was
ClonedPush(array, x) == [argument |-> array, array |-> Append(array, x)]

State(dependencies, constraints, choices) ==
    [dependencies |-> dependencies, constraints |-> constraints, choices |-> choices]

\* the while loop of _propagateExactTransDeps
RECURSIVE PropagateLoop(_, _, _, _, _, _)
PropagateLoop(h, queue, isEnqueued, dependencies, constraints, choices) ==
    IF queue = <<>> THEN Returned(State(dependencies, constraints, choices))
    ELSE
    LET uv == Head(queue)
        \* the next iteration, on the queue the exact dependencies were added to
        Again(enq, dependencies2, constraints2, choices2) ==
            PropagateLoop(h, enq.queue, enq.isEnqueued, dependencies2, constraints2,
                          choices2)
        Enqueue(exactDeps, dependencies2, constraints2, choices2) ==
            IF exactDeps.error # Null THEN exactDeps
            ELSE Again(EnqueueExactDeps(h, exactDeps.value, 1, Tail(queue), isEnqueued),
                       dependencies2, constraints2, choices2)
        \* the exact constraints on the dependencies of uv and their unit versions
        NewExact(dependencies2, constraints2, choices2) ==
            Enqueue(SatisfyingUnitVersions(h,
                        ListUnion(ExactConstraintsIntersection(h[uv].dependencies,
                                                               constraints2),
                                  ExactDependenciesIntersection(h[uv].constraints,
                                                                h[uv].dependencies)),
                        1, <<>>),
                    dependencies2, constraints2, choices2)
        Pending(dependencies1, constraints2, choices2) ==
            NewExact(RemoveChoiceNames(h, choices2, 1, dependencies1), constraints2,
                     choices2)
        \* the updates of dependencies, constraints and choices
        Update(exactTransitiveDepsVersions, inexactTransitiveDeps) ==
            Pending(ListUnion(dependencies, inexactTransitiveDeps),
                    ListUnion(constraints,
                              UnionConstraints(h, ArrayUnion(exactTransitiveDepsVersions,
                                                             <<uv>>), 1, <<>>)),
                    ArrayUnion(ClonedPush(choices, uv).array,
                               exactTransitiveDepsVersions))
        Inexact(exactTransitiveDepsVersions, inexactTransitiveDeps) ==
            IF inexactTransitiveDeps.error # Null THEN inexactTransitiveDeps
            ELSE Update(exactTransitiveDepsVersions.value, inexactTransitiveDeps.value)
        Exact(exactTransitiveDepsVersions) ==
            IF exactTransitiveDepsVersions.error # Null THEN exactTransitiveDepsVersions
            ELSE Inexact(exactTransitiveDepsVersions, InexactTransitiveDependencies(h, uv))
    IN Exact(ExactTransitiveDependenciesVersions(h, uv))
\* Resolver.prototype._propagateExactTransDeps
PropagateExactTransDeps(h, uv, dependencies, constraints, choices) ==
    PropagateLoop(h, <<uv>>, {h[uv].name}, dependencies, constraints, choices)

\* a filter that lets every state through
AlwaysValid(h, choices, constraints) == TRUE
\* choicesDontViolateConstraints
ChoicesDontViolateConstraints(h, choices, constraints) ==
    \A i \in 1 .. Len(choices) : ~Violated(constraints, h[choices[i]])

(***************************************************************************)
(* Neighbour expansion.                                                    *)
(***************************************************************************)
\* a map that leaves out the candidates whose propagation throws
RECURSIVE MapCandidatesSkipping(_, _, _, _, _, _, _)
MapCandidatesSkipping(h, candidateVersions, i, dependencies, constraints, choices, acc) ==
    IF i > Len(candidateVersions) THEN Returned(acc)
    ELSE LET uv == candidateVersions[i]
             nChoices == Append(choices, uv)
             Mapped(next) ==
                 MapCandidatesSkipping(h, candidateVersions, i + 1, dependencies,
                                       constraints, choices,
                                       IF next.error # Null THEN acc
                                       ELSE Append(acc, next.value))
         IN Mapped(PropagateExactTransDeps(h, uv, dependencies, constraints, nChoices))
\* the map of _stateNeighbors over candidateVersions, from position i: the
\* propagated states in order; a propagation that throws ends the map
RECURSIVE MapCandidates(_, _, _, _, _, _, _)
MapCandidates(h, candidateVersions, i, dependencies, constraints, choices, acc) ==
    IF i > Len(candidateVersions) THEN Returned(acc)
    ELSE LET uv == candidateVersions[i]
             nChoices == Append(choices, uv)
             Mapped(next) ==
                 IF next.error # Null THEN next
                 ELSE MapCandidates(h, candidateVersions, i + 1, dependencies, constraints,
                                    choices, Append(acc, next.value))
         IN Mapped(PropagateExactTransDeps(h, uv, dependencies, constraints, nChoices))

\* Resolver.prototype._stateNeighbors: [error, success, failureMsg, neighbors],
\* error the message thrown, Null when the call returns
StateNeighbors(h, state) ==
    LET candidateName == ListPeek(state.dependencies)
        dependencies == ListRemove(state.dependencies, candidateName)
        registered == IF Has(unitsVersions, candidateName)
                      THEN unitsVersions[candidateName] ELSE <<>>
        Filtered(neighbors) ==
            IF Len(neighbors) = 0
            THEN [error |-> Null, success |-> FALSE,
                  failureMsg |-> <<NoneSensibleText, candidateName>>, neighbors |-> <<>>]
            ELSE [error |-> Null, success |-> TRUE, failureMsg |-> Null,
                  neighbors |-> neighbors]
        Mapped(mapped) ==
            IF mapped.error # Null
            THEN [error |-> mapped.error, success |-> FALSE, failureMsg |-> Null,
                  neighbors |-> <<>>]
            ELSE Filtered(SelectSeq(mapped.value,
                     LAMBDA s : ChoicesDontViolateConstraints(h, s.choices,
                                                              s.constraints)))
        Chosen(candidateVersions) ==
            IF candidateVersions = <<>>
            THEN [error |-> Null, success |-> FALSE,
                  failureMsg |-> <<CannotChooseText, candidateName>>, neighbors |-> <<>>]
            ELSE Mapped(MapCandidates(h, candidateVersions, 1, dependencies,
                                      state.constraints, state.choices, <<>>))
    IN Chosen(SelectSeq(registered, LAMBDA uv : ~Violated(state.constraints, h[uv])))

(***************************************************************************)
(* The cost functions a caller passes in options.  A function is named:    *)
(*   zero      the default, 0                                              *)
(*   versions  the sum of the versions chosen (older is cheaper)           *)
(*   newest    the sum of MaxVersion - version (newer is cheaper)          *)
(*   banOld    Infinity when a version 1 is chosen, else 0                 *)
(*   pending   the number of pending dependencies (an estimate)            *)
(***************************************************************************)
\* JavaScript's + on costs
Plus(x, y) == IF x >= Infinity \/ y >= Infinity THEN Infinity ELSE x + y
\* what one chosen unit version adds to the cost named
UnitCost(name, uv) ==
    CASE name = "zero" -> 0
      [] name = "versions" -> uv.version
      [] name = "newest" -> MaxVersion - uv.version
      [] name = "banOld" -> IF uv.version = 1 THEN Infinity ELSE 0
RECURSIVE SumOver(_, _, _, _)
SumOver(h, choices, i, name) ==
    IF i > Len(choices) THEN 0
    ELSE Plus(UnitCost(name, h[choices[i]]), SumOver(h, choices, i + 1, name))
\* options.costFunction(choices, opts)
CostFunction(h, options, choices) == SumOver(h, choices, 1, options.costFunction)
\* options.estimateCostFunction(state, opts)
EstimateCostFunction(h, options, state) ==
    CASE options.estimateCostFunction = "zero" -> 0
      [] options.estimateCostFunction = "pending" -> Len(state.dependencies)
\* options.combineCostFunction(cost, anotherCost): the default
CombineCostFunction(options, cost, anotherCost) == Plus(cost, anotherCost)

\* a priority that leaves the costFunction out
PushPriorityWithoutCost(h, options, state) ==
    <<EstimateCostFunction(h, options, state), -Len(state.choices)>>
\* the priority resolve pushes a state with
PushPriority(h, options, state) ==
    <<CombineCostFunction(options, CostFunction(h, options, state.choices),
                          EstimateCostFunction(h, options, state)),
      -Len(state.choices)>>
\* a tentative cost that leaves the costFunction out
EstimateAlone(h, options, state) == EstimateCostFunction(h, options, state)
\* tentativeCost of the state popped
TentativeCost(h, options, state) ==
    Plus(CostFunction(h, options, state.choices), EstimateCostFunction(h, options, state))

(***************************************************************************)
(* PriorityQueue: entries [item, priority] in push order; pop takes an     *)
(* entry of least priority, priorities compared as arrays.  Which of       *)
(* several least entries pop takes is left open.                           *)
(***************************************************************************)
CompareArrays(p, q) ==
    IF p[1] # q[1] THEN p[1] - q[1] ELSE p[2] - q[2]
PQPush(queue, item, priority) == Append(queue, [item |-> item, priority |-> priority])
PQEmpty(queue) == queue = <<>>
\* the positions pop may take
PQMinimal(queue) ==
    {i \in 1 .. Len(queue) :
        \A j \in 1 .. Len(queue) : CompareArrays(queue[i].priority, queue[j].priority) <= 0}
PQRemove(queue, i) == SubSeq(queue, 1, i - 1) \o SubSeq(queue, i + 1, Len(queue))
RECURSIVE PQPushAll(_, _, _, _, _)
PQPushAll(h, options, queue, states, i) ==
    IF i > Len(states) THEN queue
    ELSE PQPushAll(h, options,
                   PQPush(queue, states[i], PushPriority(h, options, states[i])),
                   states, i + 1)

(***************************************************************************)
(* The Resolver registry.                                                  *)
(***************************************************************************)
\* JSON.stringify of a string: quoted, with quotes and backslashes escaped
RECURSIVE JSONEscape(_)
JSONEscape(str) ==
    IF str = <<>> THEN <<>>
    ELSE (IF Head(str) \in {"\"", "\\"} THEN <<"\\", Head(str)>> ELSE <<Head(str)>>)
         \o JSONEscape(Tail(str))
JSONString(str) == <<"\"">> \o JSONEscape(str) \o <<"\"">>
\* a key that joins the two strings as they are
JoinedStrings(name, versionConstraint) == name \o versionConstraint
\* JSON.stringify([name, versionConstraint])
JSONStringify(name, versionConstraint) ==
    <<"[">> \o JSONString(name) \o <<",">> \o JSONString(versionConstraint) \o <<"]">>

\* the registries of a Resolver
Registry(units, map, latest) ==
    [unitsVersions |-> units, unitsVersionsMap |-> map, latestVersion |-> latest]
\* ConstraintSolver.Resolver: the registries after construction
NewResolver == Registry(EmptyObject, EmptyObject, EmptyObject)

\* a test that takes every unit version for a new one
AlwaysUnseen(map, unitVersion) == TRUE
\* ! _.has(self._unitsVersionsMap, unitVersion.toString())
Unseen(map, unitVersion) == ~Has(map, UnitVersionToString(unitVersion))
\* an update that keeps the version registered last
LastRegistered(latest, unitVersion) == Put(latest, unitVersion.name, unitVersion.version)
\* the update of _latestVersion that ends addUnitVersion
GreaterVersion(latest, unitVersion) ==
    IF SemverLt(latest[unitVersion.name], unitVersion.version)
    THEN Put(latest, unitVersion.name, unitVersion.version)
    ELSE latest
\* Resolver.prototype.addUnitVersion on the registries reg; ref is the
\* reference of unitVersion
AddUnitVersion(reg, unitVersion, ref) ==
    LET fresh == ~Has(reg.unitsVersions, unitVersion.name)
        units1 == IF fresh THEN Put(reg.unitsVersions, unitVersion.name, <<>>)
                  ELSE reg.unitsVersions
        latest1 == IF fresh
                   THEN Put(reg.latestVersion, unitVersion.name, unitVersion.version)
                   ELSE reg.latestVersion
        unseen == Unseen(reg.unitsVersionsMap, unitVersion)
        units2 == IF unseen
                  THEN Put(units1, unitVersion.name, Append(units1[unitVersion.name], ref))
                  ELSE units1
        map2 == IF unseen
                THEN Put(reg.unitsVersionsMap, UnitVersionToString(unitVersion), ref)
                ELSE reg.unitsVersionsMap
    IN Registry(units2, map2, GreaterVersion(latest1, unitVersion))

\* Resolver.prototype.getConstraint on the table and the heap of constraints:
\* [table, objects, ref], ref the reference returned
GetConstraint(table, objects, name, versionConstraint) ==
    LET idString == JSONStringify(name, versionConstraint)
    IN IF Has(table, idString)
       THEN [table |-> table, objects |-> objects, ref |-> table[idString]]
       ELSE [table |-> Put(table, idString, Len(objects) + 1),
             objects |-> Append(objects, Constraint(name, versionConstraint)),
             ref |-> Len(objects) + 1]

\* UnitVersion.prototype.addDependency: the unit version after the call that
\* returns; the call throws when the name is there already
AddDependencyThrows(uv, name) == ListContains(uv.dependencies, name)
AddDependency(uv, name) == [uv EXCEPT !.dependencies = ListPush(@, name)]
\* UnitVersion.prototype.addConstraint
AddConstraintThrows(uv, constraint) == ListContains(uv.constraints, constraint)
AddConstraint(uv, constraint) == [uv EXCEPT !.constraints = ListPush(@, constraint)]

(***************************************************************************)
(* The registry calls of a client, one action per call.                    *)
(***************************************************************************)
RegistryNames == {PkgA, PkgB}
\* the names getConstraint is called with: a name may end with "="
ConstraintNames == RegistryNames \cup {PkgA \o <<"=">>}
RegistryVersionConstraints == {<<"=", "1">>, <<"1">>}
CallsMade == Len(uvObjects) + Len(addCalls) + Len(getCalls)

\* unitVersion = new ConstraintSolver.UnitVersion(name, version, ecv)
NewUnitVersion ==
    /\ pc = "idle"
    /\ CallsMade < MaxCalls
    /\ Len(uvObjects) < MaxUnits
    /\ \E name \in RegistryNames, version \in Versions :
          uvObjects' = Append(uvObjects, UnitVersion(name, version, version))
    /\ UNCHANGED <<cObjects, unitsVersions, unitsVersionsMap, latestVersion,
                   constraintsTable, addCalls, getCalls>>
    /\ UNCHANGED resolveVars
    /\ UNCHANGED propagateVars

\* resolver.addUnitVersion(unitVersion)
AddUnitVersionCall ==
    /\ pc = "idle"
    /\ CallsMade < MaxCalls
    /\ \E ref \in 1 .. Len(uvObjects) :
          LET reg == AddUnitVersion(Registry(unitsVersions, unitsVersionsMap,
                                             latestVersion), uvObjects[ref], ref)
          IN /\ unitsVersions' = reg.unitsVersions
             /\ unitsVersionsMap' = reg.unitsVersionsMap
             /\ latestVersion' = reg.latestVersion
             /\ addCalls' = Append(addCalls, ref)
    /\ UNCHANGED <<uvObjects, cObjects, constraintsTable, getCalls>>
    /\ UNCHANGED resolveVars
    /\ UNCHANGED propagateVars

\* resolver.getConstraint(name, versionConstraint)
GetConstraintCall ==
    /\ pc = "idle"
    /\ CallsMade < MaxCalls
    /\ \E name \in ConstraintNames, versionConstraint \in RegistryVersionConstraints :
          LET got == GetConstraint(constraintsTable, cObjects, name, versionConstraint)
          IN /\ constraintsTable' = got.table
             /\ cObjects' = got.objects
             /\ getCalls' = Append(getCalls, [name |-> name,
                                              versionConstraint |-> versionConstraint,
                                              ref |-> got.ref])
    /\ UNCHANGED <<uvObjects, unitsVersions, unitsVersionsMap, latestVersion, addCalls>>
    /\ UNCHANGED resolveVars
    /\ UNCHANGED propagateVars

(***************************************************************************)
(* resolve.                                                                *)
(***************************************************************************)
NoState == State(<<>>, <<>>, <<>>)
NoOutcome == [kind |-> "none", value |-> <<>>]
Return(value) == [kind |-> "returned", value |-> value]
Throw(msg) == [kind |-> "thrown", value |-> msg]
NoArgs == [dependencies |-> <<>>, constraints |-> <<>>, choices |-> <<>>,
           options |-> [costFunction |-> "zero", estimateCostFunction |-> "zero",
                        stopAfterFirstPropagation |-> FALSE]]

\* appUV: the fake unit version of the target
AppUV(dependencies, constraints) ==
    [UnitVersion(TargetName, 1, 0) EXCEPT
        !.dependencies = ListFromArray(dependencies),
        !.constraints = ListFromArray(constraints)]
\* the objects resolve called with these arguments refers to
HeapOf(dependencies, constraints) ==
    [r \in 0 .. Len(uvObjects) |->
        IF r = TargetRef THEN AppUV(dependencies, constraints) ELSE uvObjects[r]]
Heap == HeapOf(args.dependencies, args.constraints)

\* a start state that keeps the target among its choices
StartStateWithTarget(dependencies, constraints, choices) ==
    PropagateExactTransDeps(HeapOf(dependencies, constraints), TargetRef,
                            HeapOf(dependencies, constraints)[TargetRef].dependencies,
                            HeapOf(dependencies, constraints)[TargetRef].constraints,
                            choices)
\* startState of resolve: the propagation of appUV without the target
StartState(dependencies, constraints, choices) ==
    LET h == HeapOf(dependencies, constraints)
        WithoutTarget(propagated) ==
            IF propagated.error # Null THEN propagated
            ELSE Returned([propagated.value EXCEPT
                     !.choices = SelectSeq(@, LAMBDA uv : h[uv].name # TargetName)])
    IN WithoutTarget(PropagateExactTransDeps(h, TargetRef, h[TargetRef].dependencies,
                                             h[TargetRef].constraints, choices))

\* resolve(dependencies, constraints, choices, options), up to the search loop
ResolveCall(dependencies, constraints, choices, options) ==
    LET h == HeapOf(dependencies, constraints)
        estimatedStartingCost(state) ==
            CombineCostFunction(options, CostFunction(h, options, state.choices),
                                EstimateCostFunction(h, options, state))
        Started(start) ==
            IF start.error # Null
            THEN /\ pc' = "done"
                 /\ outcome' = Throw(start.error)
                 /\ UNCHANGED <<startState, pq>>
            ELSE IF options.stopAfterFirstPropagation
            THEN /\ pc' = "done"
                 /\ outcome' = Return(start.value.choices)
                 /\ startState' = start.value
                 /\ UNCHANGED pq
            ELSE /\ pc' = "loop"
                 /\ startState' = start.value
                 /\ pq' = PQPush(<<>>, start.value,
                                 <<estimatedStartingCost(start.value), 0>>)
                 /\ UNCHANGED outcome
    IN /\ pc = "idle"
       /\ args' = [dependencies |-> dependencies, constraints |-> constraints,
                   choices |-> choices, options |-> options]
       \* the arrays are read by _.clone and fromArray; choices is the array the
       \* first iteration of _propagateExactTransDeps clones and pushes on
       /\ callerArrays' = [dependencies |-> dependencies, constraints |-> constraints,
                           choices |-> ClonedPush(choices, TargetRef).argument]
       /\ Started(StartState(dependencies, constraints, choices))
       /\ UNCHANGED <<currentState, someError, solution, failures>>
       /\ UNCHANGED registryVars
       /\ UNCHANGED propagateVars

\* an expansion failure that is not remembered
ForgetError(error, failureMsg) == Null
\* an error message that replaces the one remembered
RememberLastError(error, failureMsg) == failureMsg
\* someError || neighborsObj.failureMsg
RememberError(error, failureMsg) == IF error # Null THEN error ELSE failureMsg

\* one iteration of the while loop of resolve
Iterate ==
    /\ pc = "loop"
    /\ ~PQEmpty(pq)
    /\ \E i \in PQMinimal(pq) :
        LET popped == pq[i].item
            rest == PQRemove(pq, i)
            tentativeCost == TentativeCost(Heap, args.options, popped)
            Expand(neighborsObj) ==
                IF neighborsObj.error # Null
                THEN /\ pc' = "done"
                     /\ outcome' = Throw(neighborsObj.error)
                     /\ pq' = rest
                     /\ UNCHANGED <<someError, solution, failures>>
                ELSE IF ~neighborsObj.success
                THEN /\ someError' = RememberError(someError, neighborsObj.failureMsg)
                     /\ failures' = Append(failures, neighborsObj.failureMsg)
                     /\ pq' = rest
                     /\ UNCHANGED <<pc, solution, outcome>>
                ELSE /\ pq' = PQPushAll(Heap, args.options, rest,
                                        neighborsObj.neighbors, 1)
                     /\ UNCHANGED <<pc, someError, solution, outcome, failures>>
        IN /\ currentState' = popped
           /\ IF tentativeCost = Infinity
              THEN /\ pc' = "exit"
                   /\ pq' = rest
                   /\ UNCHANGED <<someError, solution, outcome, failures>>
              ELSE IF ListIsEmpty(popped.dependencies)
              THEN /\ pc' = "exit"
                   /\ solution' = <<popped.choices>>
                   /\ pq' = rest
                   /\ UNCHANGED <<someError, outcome, failures>>
              ELSE Expand(StateNeighbors(Heap, popped))
    /\ UNCHANGED <<args, startState, callerArrays>>
    /\ UNCHANGED registryVars
    /\ UNCHANGED propagateVars

\* the end of resolve, after the loop
Finish ==
    /\ \/ pc = "exit"
       \/ pc = "loop" /\ PQEmpty(pq)
    /\ pc' = "done"
    /\ outcome' = IF solution # Null THEN Return(solution[1])
                  ELSE IF someError # Null THEN Throw(someError)
                  ELSE Throw(CouldntResolve)
    /\ UNCHANGED <<args, startState, pq, currentState, someError, solution, failures,
                   callerArrays>>
    /\ UNCHANGED registryVars
    /\ UNCHANGED propagateVars

(***************************************************************************)
(* The registries resolve is called on, built by the registry calls of a   *)
(* client: every constraint over the packages a, b and c interned, and up  *)
(* to MaxUnits releases registered, each exactly once.                     *)
(***************************************************************************)
PackageNames == <<PkgA, PkgB, PkgC>>
\* the k-th (name, versionConstraint) pair a client interns
PairsPerName == 2 * MaxVersion
PairName(k) == PackageNames[((k - 1) \div PairsPerName) + 1]
PairVersionConstraint(k) ==
    LET r == (k - 1) % PairsPerName
    IN (IF r < MaxVersion THEN <<"=">> ELSE <<>>) \o VersionString((r % MaxVersion) + 1)
RECURSIVE InternPairs(_, _)
InternPairs(k, acc) ==
    IF k > Len(PackageNames) * PairsPerName THEN acc
    ELSE LET got == GetConstraint(acc.table, acc.objects, PairName(k),
                                  PairVersionConstraint(k))
         IN InternPairs(k + 1,
                [table |-> got.table, objects |-> got.objects,
                 calls |-> Append(acc.calls, [name |-> PairName(k),
                                  versionConstraint |-> PairVersionConstraint(k),
                                  ref |-> got.ref])])
Interned == InternPairs(1, [table |-> EmptyObject, objects |-> <<>>, calls |-> <<>>])
\* the reference getConstraint returned for the constraint on name
ConstraintRef(name, exact, version) ==
    CHOOSE r \in 1 .. Len(Interned.objects) :
        Interned.objects[r] = [name |-> name, exact |-> exact, version |-> version]

\* what a release of a package may declare: its dependencies and constraints.
\* a depends on b, b on c or back on a, c on nothing.
Declarations(name) ==
    IF name = PkgA
    THEN {<<<<>>, <<>>>>, <<<<PkgB>>, <<>>>>,
          <<<<PkgB>>, <<ConstraintRef(PkgB, TRUE, 1)>>>>,
          <<<<PkgB>>, <<ConstraintRef(PkgB, FALSE, MaxVersion)>>>>}
    ELSE IF name = PkgB
    THEN {<<<<>>, <<>>>>, <<<<PkgC>>, <<>>>>,
          <<<<PkgC>>, <<ConstraintRef(PkgC, TRUE, 1)>>>>,
          <<<<PkgA>>, <<ConstraintRef(PkgA, TRUE, 1)>>>>}
    ELSE {<<<<>>, <<>>>>}
RECURSIVE AddDependencies(_, _, _)
AddDependencies(uv, names, i) ==
    IF i > Len(names) THEN uv ELSE AddDependencies(AddDependency(uv, names[i]), names, i + 1)
RECURSIVE AddConstraints(_, _, _)
AddConstraints(uv, refs, i) ==
    IF i > Len(refs) THEN uv ELSE AddConstraints(AddConstraint(uv, refs[i]), refs, i + 1)
\* releases of a are compatible with their own version only, those of b and
\* c with every version from 1
EcvOf(name, version) == IF name = PkgA THEN version ELSE 1
Release(name, version, declared) ==
    AddConstraints(AddDependencies(UnitVersion(name, version, EcvOf(name, version)),
                                   declared[1], 1), declared[2], 1)
VersionsOf(name) == IF name = PkgC THEN {1} ELSE Versions
\* the releases of one package, in the order they are registered: by
\* ascending version, and those of a by descending version too
ReleasesOf(name) ==
    UNION {
        {s \in [1 .. n -> {Release(name, v, d) : v \in VersionsOf(name),
                                                 d \in Declarations(name)}] :
            \/ \A i, j \in 1 .. n : i < j => s[i].version < s[j].version
            \/ name = PkgA /\ \A i, j \in 1 .. n : i < j => s[i].version > s[j].version}
        : n \in 0 .. Cardinality(VersionsOf(name))}
\* the registries with a release of a and at most MaxUnits releases
Registries ==
    {a \o b \o c : a \in ReleasesOf(PkgA) \ {<<>>}, b \in ReleasesOf(PkgB),
                   c \in ReleasesOf(PkgC)}
RECURSIVE AddAll(_, _, _)
AddAll(reg, objects, i) ==
    IF i > Len(objects) THEN reg
    ELSE AddAll(AddUnitVersion(reg, objects[i], i), objects, i + 1)

(***************************************************************************)
(* The arguments of resolve.                                               *)
(***************************************************************************)
DependenciesArgs == {<<PkgA>>, <<PkgA, PkgB>>}
\* at most one constraint on a, then at most one on b
ConstraintsArgs ==
    {ca \o cb :
        ca \in {<<>>, <<ConstraintRef(PkgA, TRUE, 1)>>},
        cb \in {<<>>, <<ConstraintRef(PkgB, TRUE, MaxVersion)>>,
                <<ConstraintRef(PkgB, FALSE, MaxVersion)>>}}
\* no choice, or one release of c that declares nothing
ChoicesArgs ==
    {<<>>} \cup
    {<<r>> : r \in {r \in 1 .. Len(uvObjects) :
                      /\ uvObjects[r].name = PkgC
                      /\ uvObjects[r].dependencies = <<>>
                      /\ uvObjects[r].constraints = <<>>}}
\* the cost and estimate functions passed together
CostOptions ==
    {<<"zero", "zero">>, <<"versions", "pending">>, <<"newest", "pending">>,
     <<"banOld", "zero">>}
\* stopAfterFirstPropagation is passed with the default functions
OptionsArgs ==
    {[costFunction |-> o[1], estimateCostFunction |-> o[2],
      stopAfterFirstPropagation |-> FALSE] : o \in CostOptions}
    \cup {[costFunction |-> "zero", estimateCostFunction |-> "zero",
           stopAfterFirstPropagation |-> TRUE]}

Resolve ==
    \E dependencies \in DependenciesArgs, constraints \in ConstraintsArgs,
       options \in OptionsArgs :
        \E choices \in ChoicesArgs :
            ResolveCall(dependencies, constraints, choices, options)

(***************************************************************************)
(* Specifications.                                                         *)
(***************************************************************************)
InitResolve ==
    /\ pc = "idle"
    /\ args = NoArgs
    /\ startState = NoState
    /\ pq = <<>>
    /\ currentState = NoState
    /\ someError = Null
    /\ solution = Null
    /\ outcome = NoOutcome
    /\ callerArrays = [dependencies |-> <<>>, constraints |-> <<>>, choices |-> <<>>]
    /\ failures = <<>>

\* no call of _propagateExactTransDeps on its own
NoPropagateArgs == [uv |-> TargetRef, dependencies |-> <<>>, constraints |-> <<>>,
                    choices |-> <<>>]
InitPropagate ==
    /\ propagateArgs = NoPropagateArgs
    /\ propagateResults = <<>>

\* a Resolver with its registries filled, before a call of resolve
Init ==
    /\ uvObjects \in {r \in Registries : Len(r) <= MaxUnits}
    /\ cObjects = Interned.objects
    /\ constraintsTable = Interned.table
    /\ getCalls = Interned.calls
    /\ LET reg == AddAll(NewResolver, uvObjects, 1)
       IN /\ unitsVersions = reg.unitsVersions
          /\ unitsVersionsMap = reg.unitsVersionsMap
          /\ latestVersion = reg.latestVersion
    /\ addCalls = [i \in 1 .. Len(uvObjects) |-> i]
    /\ InitResolve
    /\ InitPropagate

Next == Resolve \/ Iterate \/ Finish

Spec == Init /\ [][Next]_vars

\* a Resolver after construction
InitRegistry ==
    /\ uvObjects = <<>>
    /\ cObjects = <<>>
    /\ unitsVersions = NewResolver.unitsVersions
    /\ unitsVersionsMap = NewResolver.unitsVersionsMap
    /\ latestVersion = NewResolver.latestVersion
    /\ constraintsTable = EmptyObject
    /\ addCalls = <<>>
    /\ getCalls = <<>>
    /\ InitResolve
    /\ InitPropagate

NextRegistry == NewUnitVersion \/ AddUnitVersionCall \/ GetConstraintCall

SpecRegistry == InitRegistry /\ [][NextRegistry]_vars

(***************************************************************************)
(* _propagateExactTransDeps called on its own: on a unit version of a      *)
(* filled registry and a state, and then on the state it returned.         *)
(***************************************************************************)
\* what a release may declare here: a depends on b, or on b and c, and may pin
\* b; b may depend on c and may pin c, also without depending on it
PropagateDeclarations(name) ==
    IF name = PkgA
    THEN {<<d, c>> : d \in {<<>>, <<PkgB>>, <<PkgB, PkgC>>},
                     c \in {<<>>, <<ConstraintRef(PkgB, TRUE, 1)>>}}
    ELSE IF name = PkgB
    THEN {<<d, c>> : d \in {<<>>, <<PkgC>>},
                     c \in {<<>>, <<ConstraintRef(PkgC, TRUE, 1)>>}}
    ELSE {<<<<>>, <<>>>>}
\* the releases of one package registered here: none or one
PropagateReleasesOf(name) ==
    {<<>>} \cup {<<Release(name, v, d)>> : v \in VersionsOf(name),
                                          d \in PropagateDeclarations(name)}
\* the registries: a release of a, then at most one of b and one of c
PropagateRegistries ==
    {a \o b \o c : a \in PropagateReleasesOf(PkgA) \ {<<>>},
                   b \in PropagateReleasesOf(PkgB), c \in PropagateReleasesOf(PkgC)}
\* the states a call is made on
PropagateDependencies == {<<>>, <<PkgC>>}
PropagateConstraints ==
    {<<>>, <<ConstraintRef(PkgB, TRUE, 1)>>, <<ConstraintRef(PkgB, FALSE, MaxVersion)>>}
PropagateChoices == {<<>>} \cup {<<r>> : r \in 1 .. Len(uvObjects)}
\* the objects a call on its own refers to: the registered unit versions
PropagateHeap == HeapOf(<<>>, <<>>)

\* self._propagateExactTransDeps(uv, dependencies, constraints, choices)
Propagate ==
    /\ propagateResults = <<>>
    /\ propagateResults' =
          <<PropagateExactTransDeps(PropagateHeap, propagateArgs.uv,
                                    propagateArgs.dependencies,
                                    propagateArgs.constraints, propagateArgs.choices)>>
    /\ UNCHANGED propagateArgs
    /\ UNCHANGED registryVars
    /\ UNCHANGED resolveVars
\* the same call on the state the first call returned
PropagateAgain ==
    /\ Len(propagateResults) = 1
    /\ propagateResults[1].error = Null
    /\ propagateResults' =
          Append(propagateResults,
                 PropagateExactTransDeps(PropagateHeap, propagateArgs.uv,
                                         propagateResults[1].value.dependencies,
                                         propagateResults[1].value.constraints,
                                         propagateResults[1].value.choices))
    /\ UNCHANGED propagateArgs
    /\ UNCHANGED registryVars
    /\ UNCHANGED resolveVars

InitPropagation ==
    /\ uvObjects \in {r \in PropagateRegistries : Len(r) <= MaxUnits}
    /\ cObjects = Interned.objects
    /\ constraintsTable = Interned.table
    /\ getCalls = Interned.calls
    /\ LET reg == AddAll(NewResolver, uvObjects, 1)
       IN /\ unitsVersions = reg.unitsVersions
          /\ unitsVersionsMap = reg.unitsVersionsMap
          /\ latestVersion = reg.latestVersion
    /\ addCalls = [i \in 1 .. Len(uvObjects) |-> i]
    /\ InitResolve
    /\ propagateArgs \in [uv : 1 .. Len(uvObjects), dependencies : PropagateDependencies,
                          constraints : PropagateConstraints, choices : PropagateChoices]
    /\ propagateResults = <<>>

NextPropagation == Propagate \/ PropagateAgain

SpecPropagation == InitPropagation /\ [][NextPropagation]_vars

(***************************************************************************)
(* The contract of resolve.                                                *)
(***************************************************************************)
\* resolve has returned a choices list
ResolveReturned == pc = "done" /\ outcome.kind = "returned"
\* resolve has returned the choices of a state the search popped
SearchReturned == ResolveReturned /\ ~args.options.stopAfterFirstPropagation
\* the constraints in force in the state returned: those of the caller and
\* those of every unit version chosen
ConstraintsInForce ==
    Range(args.constraints)
        \cup UNION {Range(uvObjects[r].constraints) : r \in Range(outcome.value)}
\* the names of choices, in order
ChoiceNames(choices) == [i \in 1 .. Len(choices) |-> Heap[choices[i]].name]
\* no unit version twice and no two unit versions of one name
OnePerName(choices) ==
    \A i, j \in 1 .. Len(choices) : i # j => ChoiceNames(choices)[i] # ChoiceNames(choices)[j]

\* C1 (soundness): whenever the search of resolve returns a choices list, every
\* constraint in force in the returned state, the caller's and those of the
\* chosen unit versions, is satisfied by every chosen unit version of the
\* constraint's name.  The claim says so of every call; it fails already for
\* the calls that run the search.
Soundness ==
    SearchReturned =>
        \A c \in ConstraintsInForce : \A r \in Range(outcome.value) :
            uvObjects[r].name = cObjects[c].name =>
                IsSatisfied(cObjects[c], uvObjects[r])

\* C2: in the start state, in every state queued and in the solution returned
\* by the search of resolve, choices holds no unit version twice and no two
\* unit versions of one name.
ChoicesOnePerName ==
    ~args.options.stopAfterFirstPropagation =>
        /\ OnePerName(startState.choices)
        /\ \A i \in 1 .. Len(pq) : OnePerName(pq[i].item.choices)
        /\ OnePerName(currentState.choices)
        /\ ResolveReturned => OnePerName(outcome.value)

\* the names reachable from names by following the dependencies of the unit
\* versions returned
RECURSIVE RequiredNames(_)
RequiredNames(names) ==
    LET more == names \cup UNION {Range(uvObjects[r].dependencies) :
                            r \in {q \in Range(outcome.value) : uvObjects[q].name \in names}}
    IN IF more = names THEN names ELSE RequiredNames(more)
\* how many of the unit versions of choices have this name
TimesChosen(choices, name) ==
    Cardinality({i \in 1 .. Len(choices) : uvObjects[choices[i]].name = name})

\* C3 (coverage): whenever the search of resolve returns a choices list, every
\* name reachable from the input dependencies through the dependencies of the
\* unit versions chosen is the name of exactly one of the choices returned.
Coverage ==
    SearchReturned =>
        \A name \in RequiredNames(Range(args.dependencies)) :
            TimesChosen(outcome.value, name) = 1

\* the versions registered under name
RegisteredVersions(name) ==
    IF Has(unitsVersions, name)
    THEN {uvObjects[r].version : r \in Range(unitsVersions[name])}
    ELSE {}
\* the exact constraints a unit version puts on its own dependencies
ExactOnOwnDependencies(uv) ==
    {c \in Range(uv.constraints) :
        cObjects[c].exact /\ cObjects[c].name \in Range(uv.dependencies)}

\* C5 (exact-propagation forcing): whenever the search of resolve returns a
\* choices list with a unit version u that depends on B and declares the exact
\* constraint B@=v, B@v registered, the list holds B@v and no other version of B.
ExactForcing ==
    SearchReturned =>
        \A r \in Range(outcome.value) : \A c \in ExactOnOwnDependencies(uvObjects[r]) :
            cObjects[c].version \in RegisteredVersions(cObjects[c].name) =>
                /\ \E q \in Range(outcome.value) :
                      /\ uvObjects[q].name = cObjects[c].name
                      /\ uvObjects[q].version = cObjects[c].version
                /\ \A q \in Range(outcome.value) :
                      uvObjects[q].name = cObjects[c].name =>
                          uvObjects[q].version = cObjects[c].version

\* the states neighbour expansion reaches from state, state included; an
\* expansion that fails or throws reaches nothing
RECURSIVE ReachableStates(_)
ReachableStates(state) ==
    IF ListIsEmpty(state.dependencies) THEN {state}
    ELSE LET neighborsObj == StateNeighbors(Heap, state)
         IN {state} \cup
            (IF neighborsObj.error # Null \/ ~neighborsObj.success THEN {}
             ELSE UNION {ReachableStates(neighborsObj.neighbors[i]) :
                            i \in 1 .. Len(neighborsObj.neighbors)})
\* the terminal states among them
ReachableTerminals(state) ==
    {t \in ReachableStates(state) : ListIsEmpty(t.dependencies)}
\* the costFunction value of a state of this call
CostOf(state) == CostFunction(Heap, args.options, state.choices)
\* the estimate is a lower bound on the remaining cost: it is not negative,
\* and from no state the search can reach does cost plus estimate exceed the
\* cost of a terminal state reachable from it
Admissible ==
    \A s \in ReachableStates(startState) :
        /\ EstimateCostFunction(Heap, args.options, s) >= 0
        /\ \A t \in ReachableTerminals(s) :
              Plus(CostOf(s), EstimateCostFunction(Heap, args.options, s)) <= CostOf(t)

\* C4 (cost minimality): when the estimate is admissible, the choices list
\* resolve returns costs no more than any terminal state reachable from the
\* start state.
CostMinimality ==
    (ResolveReturned /\ Admissible) =>
        \A t \in ReachableTerminals(startState) :
            CostFunction(Heap, args.options, outcome.value) <= CostOf(t)
\* a call with a cost and a non-zero admissible estimate that returned, after
\* two expansions, the cheapest of terminal states of different costs
CostMinimalityWitness ==
    /\ SearchReturned
    /\ Admissible
    /\ args.options.costFunction = "versions"
    /\ args.options.estimateCostFunction = "pending"
    /\ startState.choices = <<>>
    /\ Len(outcome.value) = 2
    /\ \E t \in ReachableTerminals(startState) :
          CostFunction(Heap, args.options, outcome.value) < CostOf(t)

(***************************************************************************)
(* Errors of resolve.                                                      *)
(***************************************************************************)
IsNoUnitVersion(msg) == msg # Null /\ msg[1] = NoUnitVersionText
\* the state popped is expanded: its cost is finite and it is not terminal
Expanded(state) ==
    /\ TentativeCost(Heap, args.options, state) # Infinity
    /\ ~ListIsEmpty(state.dependencies)
\* the registered unit versions of the next pending name of state that the
\* constraints of state allow, in registration order
Candidates(state) ==
    LET candidateName == ListPeek(state.dependencies)
    IN SelectSeq(IF Has(unitsVersions, candidateName)
                 THEN unitsVersions[candidateName] ELSE <<>>,
                 LAMBDA r : ~Violated(state.constraints, Heap[r]))
\* the propagation of the i-th candidate of state
Propagated(state, i) ==
    PropagateExactTransDeps(Heap, Candidates(state)[i],
                            ListRemove(state.dependencies, ListPeek(state.dependencies)),
                            state.constraints, Append(state.choices, Candidates(state)[i]))
\* the error of the first candidate of state whose propagation throws
FirstThrown(state) ==
    LET throwing == {i \in 1 .. Len(Candidates(state)) : Propagated(state, i).error # Null}
    IN IF throwing = {} THEN Null
       ELSE Propagated(state, CHOOSE i \in throwing : \A j \in throwing : i <= j).error
\* the names some unit version, or the target, depends on
DeclaredDependencies ==
    UNION {Range(Heap[r].dependencies) : r \in DOMAIN Heap}
\* the exact constraints on a declared dependency that no registered unit
\* version satisfies
UnsatisfiedExact ==
    {c \in 1 .. Len(cObjects) :
        /\ cObjects[c].exact
        /\ cObjects[c].name \in DeclaredDependencies
        /\ cObjects[c].version \notin RegisteredVersions(cObjects[c].name)}
\* resolve ended with the fatal error: it names such a constraint, there is no
\* solution, and the error is not among the failures of the search
FatalOutcome ==
    (pc = "done" /\ outcome.kind = "thrown" /\ IsNoUnitVersion(outcome.value)) =>
        /\ \E c \in UnsatisfiedExact : outcome.value[2] = ConstraintToString(cObjects[c])
        /\ solution = Null
        /\ ~IsNoUnitVersion(someError)
        /\ \A i \in 1 .. Len(failures) : ~IsNoUnitVersion(failures[i])
\* a step in which propagation throws the fatal error ends resolve with it
FatalStep ==
    /\ (/\ pc = "idle"
        /\ pc' # "idle"
        /\ IsNoUnitVersion(StartState(args'.dependencies, args'.constraints,
                                      args'.choices).error))
       => /\ pc' = "done"
          /\ outcome' = Throw(StartState(args'.dependencies, args'.constraints,
                                         args'.choices).error)
          /\ pq' = <<>>
    /\ (/\ pc = "loop"
        /\ ~PQEmpty(pq)
        /\ Expanded(currentState')
        /\ IsNoUnitVersion(FirstThrown(currentState')))
       => /\ pc' = "done"
          /\ outcome' = Throw(FirstThrown(currentState'))
          /\ Len(pq') = Len(pq) - 1
          /\ <<someError, failures, solution>>' = <<someError, failures, solution>>

\* C6 (fatal registry error): when propagation, of the target or of a
\* candidate of the state popped, throws "No unit version was found for the
\* constraint", resolve ends in that step with that error; the error names an
\* exact constraint on a declared dependency without a registered unit
\* version, no solution is returned, the error is not recorded among the
\* failures of the search, and the states still queued stay queued.
FatalRegistryError == []FatalOutcome /\ [][FatalStep]_vars
\* the search was ended by the fatal error of a candidate of the state popped,
\* with a state still queued
FatalRegistryErrorWitness ==
    /\ pc = "done"
    /\ outcome.kind = "thrown"
    /\ IsNoUnitVersion(outcome.value)
    /\ Expanded(currentState)
    /\ outcome.value = FirstThrown(currentState)
    /\ pq # <<>>

\* the expansion of state fails: the constraints of state allow no registered
\* version of its next pending name, or no propagation of a candidate throws
\* and each leaves a choice that violates a constraint
DeadEnd(state) ==
    \/ Candidates(state) = <<>>
    \/ /\ FirstThrown(state) = Null
       /\ \A i \in 1 .. Len(Candidates(state)) :
             ~ChoicesDontViolateConstraints(Heap, Propagated(state, i).value.choices,
                                            Propagated(state, i).value.constraints)
\* the message of that failure
DeadEndMessage(state) ==
    <<IF Candidates(state) = <<>> THEN CannotChooseText ELSE NoneSensibleText,
      ListPeek(state.dependencies)>>
\* a step that pops a dead end drops that state and nothing else, and records
\* its message
DeadEndStep ==
    (/\ pc = "loop"
     /\ ~PQEmpty(pq)
     /\ Expanded(currentState')
     /\ DeadEnd(currentState'))
    => /\ pc' = "loop"
       /\ \E i \in 1 .. Len(pq) : pq[i].item = currentState' /\ pq' = PQRemove(pq, i)
       /\ failures' = Append(failures, DeadEndMessage(currentState'))
       /\ <<solution, outcome>>' = <<solution, outcome>>
\* resolve was ended by an error thrown by propagation
PropagationThrew ==
    /\ outcome.kind = "thrown"
    /\ outcome.value # CouldntResolve
    /\ \A i \in 1 .. Len(failures) : outcome.value # failures[i]
\* resolve ended after a failed expansion without an error of propagation: it
\* returned a solution if the start state reaches a terminal state of finite
\* cost, and it threw the message of the first failed expansion if not
DeadEndOutcome ==
    (pc = "done" /\ failures # <<>> /\ ~PropagationThrew) =>
        IF \E t \in ReachableTerminals(startState) : CostOf(t) # Infinity
        THEN outcome.kind = "returned"
        ELSE outcome = Throw(failures[1])

ArraysAsPassed ==
    pc # "idle" =>
        callerArrays = [dependencies |-> args.dependencies,
                        constraints |-> args.constraints, choices |-> args.choices]
\* a step of resolve leaves the heaps of unit versions and constraints and
\* every registry as they were
RegistriesKept ==
    pc' # "idle" => registryVars' = registryVars

\* C11 (resolve is read-only): every step of a call of resolve, whether the
\* call returns or throws, leaves unitsVersions, the name@version map,
\* latestVersion, the constraint table and the dependencies and constraints of
\* every unit version unchanged, and the caller's arrays dependencies,
\* constraints and choices hold after the call what they held before it.
ReadOnly == []ArraysAsPassed /\ [][RegistriesKept]_vars
\* a call with an initial choice failed after a search that popped a state
ReadOnlyWitness ==
    /\ pc = "done"
    /\ outcome.kind = "thrown"
    /\ args.choices # <<>>
    /\ failures # <<>>
    /\ callerArrays.choices = args.choices

\* the propagation of the target that starts the call
InitialPropagation ==
    PropagateExactTransDeps(Heap, TargetRef, Heap[TargetRef].dependencies,
                            Heap[TargetRef].constraints, args.choices)
\* a call with stopAfterFirstPropagation has ended without a queue, a popped
\* state or a recorded failure, with the error the propagation threw or with
\* the choices it returned less the target
StoppedAfterPropagation ==
    (pc # "idle" /\ args.options.stopAfterFirstPropagation) =>
        /\ pc = "done"
        /\ pq = <<>>
        /\ currentState = NoState
        /\ failures = <<>>
        /\ someError = Null
        /\ solution = Null
        /\ IF InitialPropagation.error # Null
           THEN outcome = Throw(InitialPropagation.error)
           ELSE outcome = Return(SelectSeq(InitialPropagation.value.choices,
                                           LAMBDA r : r # TargetRef))

InfiniteCost(state) ==
    Plus(CostOf(state), EstimateCostFunction(Heap, args.options, state)) = Infinity
\* a pop of a state of infinite cost ends the loop: the state leaves the queue,
\* nothing is pushed, no failure is recorded and no solution is set; nothing
\* is popped after the loop has ended
AbortStep ==
    /\ (pc = "loop" /\ ~PQEmpty(pq) /\ InfiniteCost(currentState'))
       => /\ pc' = "exit"
          /\ \E i \in 1 .. Len(pq) : pq[i].item = currentState' /\ pq' = PQRemove(pq, i)
          /\ <<someError, solution, outcome, failures>>'
                = <<someError, solution, outcome, failures>>
    /\ pc = "exit" => (pc' = "done" /\ pq' = pq /\ currentState' = currentState)
\* after such a pop there is no solution and resolve throws: the message of
\* the first failed expansion, or the generic one
AbortOutcome ==
    (pc \in {"exit", "done"} /\ InfiniteCost(currentState)) =>
        /\ solution = Null
        /\ pc = "done" =>
              outcome = Throw(IF someError # Null THEN someError ELSE CouldntResolve)

\* C15 (infinite-cost abort): when the state popped has an infinite
\* costFunction(choices) + estimateCostFunction(state), the loop ends at that
\* pop, without an expansion of the state and without another pop, and resolve
\* throws, also when the state popped is terminal or states are still queued.
InfiniteCostAbort == []AbortOutcome /\ [][AbortStep]_vars
\* resolve threw after the pop of a terminal state of infinite cost, with a
\* state still queued
InfiniteCostAbortWitness ==
    /\ pc = "done"
    /\ outcome.kind = "thrown"
    /\ InfiniteCost(currentState)
    /\ ListIsEmpty(currentState.dependencies)
    /\ pq # <<>>

\* every choice of state satisfies every constraint of state on its name
Valid(state) ==
    \A r \in Range(state.choices) : \A c \in Range(state.constraints) :
        cObjects[c].name = Heap[r].name => IsSatisfied(cObjects[c], Heap[r])
\* the propagated candidates of state that are valid, in the order of the
\* candidates
ValidNeighbors(state) ==
    SelectSeq([i \in 1 .. Len(Candidates(state)) |-> Propagated(state, i).value],
              Valid)
\* the states of the entries a step has added to the queue
Enqueued ==
    [k \in 1 .. (Len(pq') - Len(pq) + 1) |-> pq'[Len(pq) - 1 + k].item]
\* an expansion in which no propagation throws adds to the queue the valid
\* propagated candidates and nothing else
EnqueueStep ==
    (/\ pc = "loop"
     /\ ~PQEmpty(pq)
     /\ Expanded(currentState')
     /\ FirstThrown(currentState') = Null)
    => /\ Enqueued = ValidNeighbors(currentState')
       /\ \A k \in 1 .. Len(Enqueued) : Valid(Enqueued[k])
\* the states queued, but for the start state, are valid
QueuedValid ==
    \A i \in 1 .. Len(pq) : pq[i].item # startState => Valid(pq[i].item)

\* C16: every state the search loop adds to the queue is a propagated
\* candidate of the state popped in which no choice violates a constraint of
\* the state's constraints list; a candidate whose propagation leaves a choice
\* that violates a constraint is not added.
NeighborsValid == []QueuedValid /\ [][EnqueueStep]_vars
\* the state popped last had a candidate that propagation made invalid, and a
\* neighbour of another state is queued
NeighborsValidWitness ==
    /\ pc = "loop"
    /\ Expanded(currentState)
    /\ FirstThrown(currentState) = Null
    /\ \E i \in 1 .. Len(Candidates(currentState)) :
          ~Valid(Propagated(currentState, i).value)
    /\ \E k \in 1 .. Len(pq) : pq[k].item # startState

\* no pending dependency of state is the name of one of its choices
PendingNotChosen(state) ==
    \A r \in Range(state.choices) : Heap[r].name \notin Range(state.dependencies)
\* the same of every state the propagation of a candidate of state returns
PropagatedPendingNotChosen(state) ==
    Expanded(state) =>
        \A i \in 1 .. Len(Candidates(state)) :
            Propagated(state, i).error = Null
                => PendingNotChosen(Propagated(state, i).value)

\* C17: in the start state, in every state the propagation of a candidate of
\* the state popped returns and in every state queued, no name of the pending
\* dependencies is the name of a unit version of choices.
ChosenNeverPending ==
    /\ PendingNotChosen(startState)
    /\ PropagatedPendingNotChosen(currentState)
    /\ \A i \in 1 .. Len(pq) : PendingNotChosen(pq[i].item)
\* b was pending in the start state, and is chosen and no longer pending in a
\* state queued
ChosenNeverPendingWitness ==
    /\ pc = "loop"
    /\ PkgB \in Range(startState.dependencies)
    /\ \E i \in 1 .. Len(pq) :
          /\ PkgB \notin Range(pq[i].item.dependencies)
          /\ \E r \in Range(pq[i].item.choices) : Heap[r].name = PkgB

(***************************************************************************)
(* Laws of propagation.                                                    *)
(***************************************************************************)
\* two states with the same dependency names, constraints and choices
SameSets(s, t) ==
    /\ Range(s.dependencies) = Range(t.dependencies)
    /\ Range(s.constraints) = Range(t.constraints)
    /\ Range(s.choices) = Range(t.choices)

\* C13 (propagation is idempotent): when _propagateExactTransDeps(u, D, C, S)
\* returns a state, the call on u and that state returns a state with the same
\* set of dependency names, the same set of constraints and the same set of
\* choices.
PropagationIdempotent ==
    Len(propagateResults) = 2 =>
        /\ propagateResults[2].error = Null
        /\ SameSets(propagateResults[1].value, propagateResults[2].value)

(***************************************************************************)
(* The end of the search.                                                  *)
(***************************************************************************)
\* C18 (termination): resolve ends by returning a choices list or by throwing
\* an error of its own also when exact constraints between registered unit
\* versions form a cycle: the recursion of _exactTransitiveConstraints ends,
\* so resolve never ends by the RangeError of an exhausted call stack.
TransitiveConstraintsEnd ==
    (pc = "done" /\ outcome.kind = "thrown") => outcome.value # StackOverflow

\* the loop is left with an empty queue only after an expansion failed, and
\* the generic message is thrown only after the pop of a state of infinite
\* cost with no failure remembered
GenericOutcome ==
    /\ (pc = "loop" /\ PQEmpty(pq)) => (someError # Null /\ failures # <<>>)
    /\ (pc = "done" /\ outcome.kind = "thrown" /\ outcome.value = CouldntResolve)
       => /\ InfiniteCost(currentState)
          /\ someError = Null
          /\ failures = <<>>
\* an iteration that goes on with the loop took one state off the queue and
\* either recorded a failure or added at least one neighbour
ExpansionStep ==
    (pc = "loop" /\ ~PQEmpty(pq) /\ pc' = "loop")
    => \/ /\ Len(failures') = Len(failures) + 1
          /\ someError' # Null
          /\ Len(pq') = Len(pq) - 1
       \/ /\ failures' = failures
          /\ someError' = someError
          /\ Len(pq') >= Len(pq)
          /\ \E i \in 1 .. Len(pq) : pq[i].item = currentState'
\* C19 (reachability of the generic error): the priority queue never drains
\* without a recorded expansion failure, since the expansion of a popped
\* non-terminal state either records a failure or enqueues at least one
\* neighbour; resolve throws "Couldn't resolve, I am sorry" only after the pop
\* of a state of infinite cost, before any expansion failure was recorded.
GenericErrorOnlyAfterAbort == []GenericOutcome /\ [][ExpansionStep]_vars
\* the generic error after a successful expansion: the state of infinite cost
\* popped is a neighbour, not the start state
GenericErrorOnlyAfterAbortWitness ==
    /\ pc = "done"
    /\ outcome.kind = "thrown"
    /\ outcome.value = CouldntResolve
    /\ InfiniteCost(currentState)
    /\ currentState # startState
    /\ Len(currentState.choices) > Len(startState.choices)

\* C8 (constraint interning): two calls of getConstraint return the same
\* object if and only if they were made with the same name and the same
\* versionConstraint, whatever calls of addUnitVersion were made in between.
ConstraintInterning ==
    \A i, j \in 1 .. Len(getCalls) :
        (getCalls[i].ref = getCalls[j].ref)
            <=> (/\ getCalls[i].name = getCalls[j].name
                 /\ getCalls[i].versionConstraint = getCalls[j].versionConstraint)
\* a pair was asked for twice, with a registration made, and two pairs that
\* read the same once joined, "a" with "=1" and "a=" with "1", were asked for
ConstraintInterningWitness ==
    /\ addCalls # <<>>
    /\ \E i, j \in 1 .. Len(getCalls) :
          /\ i < j
          /\ getCalls[i].name = getCalls[j].name
          /\ getCalls[i].versionConstraint = getCalls[j].versionConstraint
    /\ \E i, j \in 1 .. Len(getCalls) :
          /\ getCalls[i].name # getCalls[j].name
          /\ getCalls[i].name \o getCalls[i].versionConstraint
                = getCalls[j].name \o getCalls[j].versionConstraint

\* the "name@version" string of the unit version of the i-th call of addUnitVersion
AddedString(i) == UnitVersionToString(uvObjects[addCalls[i]])
\* the calls of addUnitVersion that registered a new "name@version" string
FirstCalls ==
    {i \in 1 .. Len(addCalls) : \A j \in 1 .. i - 1 : AddedString(j) # AddedString(i)}
\* the elements of a set of numbers, in increasing order
RECURSIVE Ascending(_)
Ascending(set) ==
    IF set = {} THEN <<>>
    ELSE LET least == CHOOSE i \in set : \A j \in set : i <= j
         IN <<least>> \o Ascending(set \ {least})
\* the unit versions first registered under name, in the order of the calls
FirstRegistered(name) ==
    LET calls == Ascending({i \in FirstCalls : uvObjects[addCalls[i]].name = name})
    IN [k \in 1 .. Len(calls) |-> addCalls[calls[k]]]
\* the names addUnitVersion was called with
AddedNames == {uvObjects[addCalls[i]].name : i \in 1 .. Len(addCalls)}
\* the registries hold the first object registered for each string
FirstRegistrationsKept ==
    /\ DOMAIN unitsVersions = AddedNames
    /\ \A name \in AddedNames : unitsVersions[name] = FirstRegistered(name)
    /\ DOMAIN unitsVersionsMap = {AddedString(i) : i \in 1 .. Len(addCalls)}
    /\ \A i \in FirstCalls : unitsVersionsMap[AddedString(i)] = addCalls[i]
\* a call of addUnitVersion with a string already registered changes nothing
RepeatedRegistration ==
    (/\ Len(addCalls') = Len(addCalls) + 1
     /\ Has(unitsVersionsMap, UnitVersionToString(uvObjects[addCalls'[Len(addCalls')]])))
    => <<unitsVersions, unitsVersionsMap, latestVersion>>'
          = <<unitsVersions, unitsVersionsMap, latestVersion>>

\* C9 (idempotent registration): addUnitVersion with a "name@version" string
\* already registered leaves unitsVersions, the map and latestVersion
\* unchanged; unitsVersions[name] holds one entry for each string registered
\* under name, in the order of first registration, and the map holds the first
\* object registered for each string.
IdempotentRegistration == []FirstRegistrationsKept /\ [][RepeatedRegistration]_vars
\* a second object with a registered string was registered, after another
\* version of the same name
IdempotentRegistrationWitness ==
    \E i, j, k \in 1 .. Len(addCalls) :
        /\ i < j /\ j < k
        /\ addCalls[i] # addCalls[k]
        /\ AddedString(i) = AddedString(k)
        /\ AddedString(i) # AddedString(j)
        /\ uvObjects[addCalls[i]].name = uvObjects[addCalls[j]].name

\* the versions addUnitVersion was called with for name
AddedVersions(name) ==
    {uvObjects[addCalls[i]].version :
        i \in {j \in 1 .. Len(addCalls) : uvObjects[addCalls[j]].name = name}}
\* latestVersion holds the greatest version added for each name
LatestIsGreatest ==
    /\ DOMAIN latestVersion = AddedNames
    /\ \A name \in AddedNames :
          /\ latestVersion[name] \in AddedVersions(name)
          /\ \A v \in AddedVersions(name) : SemverLte(v, latestVersion[name])
\* no step lowers or removes an entry of latestVersion
LatestNeverDecreases ==
    \A name \in DOMAIN latestVersion :
        /\ name \in DOMAIN latestVersion'
        /\ SemverLte(latestVersion[name], latestVersion'[name])

\* C10 (monotone latest): for every name with a registered unit version,
\* latestVersion[name] is the greatest version addUnitVersion was called with
\* for that name, and it never decreases.
MonotoneLatest == []LatestIsGreatest /\ [][LatestNeverDecreases]_vars
\* a lower version of a name was added after a greater one, and latestVersion
\* kept the greater
MonotoneLatestWitness ==
    \E i, j \in 1 .. Len(addCalls) :
        /\ i < j
        /\ uvObjects[addCalls[i]].name = uvObjects[addCalls[j]].name
        /\ uvObjects[addCalls[i]].version > uvObjects[addCalls[j]].version
        /\ latestVersion[uvObjects[addCalls[i]].name] = uvObjects[addCalls[i]].version

====
